---- MODULE Spec2Model ----
(***************************************************************************)
(* A model of dicom.py: the DICOM -> PNG converter.                        *)
(*                                                                         *)
(* Spec      the filesystem side: convert_file, convert_folder and main,   *)
(*           run over a small source tree and a small destination tree.    *)
(* NormSpec  the pixel normalization of mri_to_png, with float64           *)
(*           arithmetic modelled exactly (53-bit significands in limbs).   *)
(***************************************************************************)
EXTENDS Integers, Sequences, FiniteSets, TLC

VARIABLES
    entry,          \* the function that is called: main (with or without --folder),
                    \* convert_file or convert_folder
    srcArg,         \* dicom_path / mri_file_path / mri_folder
    dstArg,         \* png_path / png_file_path / png_folder
    tree,           \* the source tree: file name -> kind of content ("absent": no such file)
    fs,             \* the destination tree: path -> node
    fs0,            \* the destination tree before the call (never changes)
    pc,             \* "start", "walking" (inside the loop of convert_folder), "done"
    todo,           \* files os.walk has yet to yield
    success_count,  \* convert_folder's counters
    fail_count,
    png_file_path,  \* convert_folder's local; Unbound until its first assignment
    printed,        \* what convert_folder printed per file: "SUCCESS", "FAIL", "SKIP", "" (nothing)
    summary,        \* whether the summary line was printed
    exc,            \* the exception that left convert_file / convert_folder ("none": none)
    status,         \* main's return value (-1: main has not returned)
    calls,          \* which of convert_file / convert_folder were called
    opened,         \* whether the top-level convert_file opened its destination for writing
    dtype,          \* NormSpec: element type of pixel_array
    pixel_array,    \* NormSpec: the decoded grid, a sequence of rows
    image_2d_scaled,\* NormSpec: the normalized grid (<<>> before normalization)
    npc             \* NormSpec: "decoded", "scaled"

vars == <<entry, srcArg, dstArg, tree, fs, fs0, pc, todo, success_count, fail_count,
          png_file_path, printed, summary, exc, status, calls, opened,
          dtype, pixel_array, image_2d_scaled, npc>>

fsVars == <<entry, srcArg, dstArg, tree, fs, fs0, pc, todo, success_count, fail_count,
            png_file_path, printed, summary, exc, status, calls, opened>>

normVars == <<dtype, pixel_array, image_2d_scaled, npc>>

----------------------------------------------------------------------------
(* Bounds *)

\* Largest number of files in the source tree.
MaxFiles == 2

\* Largest number of samples in a pixel grid (rows times columns).
MaxCells == 3

----------------------------------------------------------------------------
(* The source tree *)

SrcDirs == {".", "sub"}
Stems == {"a"}
Exts == {".dcm", ".DICOM", ".txt"}

\* A source file name: directory relative to the source root, stem and extension.
SrcNames == [dir : SrcDirs, stem : Stems, ext : Exts]

\* The source root directory itself, as a path argument.
SrcRoot == [dir |-> ".", stem |-> "", ext |-> ""]

\* What a source file holds.
\*   valid       a DICOM file with a 2-D pixel array
\*   nopixel     a DICOM file without pixel data
\*   multiframe  a DICOM file whose pixel array is not 2-D
\*   garbage     not a DICOM file (no DICM magic)
\*   unreadable  a file that cannot be opened (open raises PermissionError)
Kinds == {"valid", "nopixel", "multiframe", "garbage", "unreadable"}

FilesOf(t) == {n \in SrcNames : t[n] # "absent"}

----------------------------------------------------------------------------
(* The destination tree *)

\* A destination path: the directory (stem "") or the PNG file <dir>/<stem>.png.
DstDirs == [dir : SrcDirs, stem : {""}]
DstFiles == [dir : SrcDirs, stem : Stems]
DstPaths == DstDirs \cup DstFiles

Root == [dir |-> ".", stem |-> ""]
Sub == [dir |-> "sub", stem |-> ""]

\* The place of "no source file" in a node.
NoSrc == [dir |-> "-", stem |-> "-", ext |-> "-"]

\* Nodes: absent, a directory, a file that was there before the call ("old"), a
\* file opened for writing and not (completely) written ("partial"), the PNG of a
\* source file ("png", with that file).
Absent == [kind |-> "absent", src |-> NoSrc]
Dir == [kind |-> "dir", src |-> NoSrc]
Old == [kind |-> "old", src |-> NoSrc]
Partial == [kind |-> "partial", src |-> NoSrc]
Png(f) == [kind |-> "png", src |-> f]

IsFileNode(n) == n.kind \in {"old", "partial", "png"}

\* os.path.dirname(os.path.abspath(p)) of a destination file.
DirName(p) == [dir |-> p.dir, stem |-> ""]

----------------------------------------------------------------------------
(* Paths of the source side *)

\* os.path.isdir / os.path.isfile / os.path.exists of a source-side path.
SrcIsDir(p) == p = SrcRoot
SrcIsFile(t, p) == p \in SrcNames /\ t[p] # "absent"
SrcExists(t, p) == SrcIsDir(p) \/ SrcIsFile(t, p)

\* The content kind of a source-side path ("dir" for the root directory).
KindOf(t, p) == IF SrcIsDir(p) THEN "dir" ELSE t[p]

\* Whether an exception is an Exception (KeyboardInterrupt is a BaseException only).
IsException(e) == e \notin {"none", "KeyboardInterrupt"}

----------------------------------------------------------------------------
(* os.makedirs(d, exist_ok=True) on the destination tree *)

\* os.mkdir(d) with makedirs' handling of OSError: an existing directory is
\* accepted, anything else in the way raises.
MkDir(f, d) ==
    CASE f[d].kind = "dir" -> [fs |-> f, err |-> "none"]
      [] f[d].kind = "absent" ->
            IF d = Root \/ f[Root].kind = "dir"
            THEN [fs |-> [f EXCEPT ![d] = Dir], err |-> "none"]
            ELSE [fs |-> f, err |-> "NotADirectoryError"]
      [] OTHER -> [fs |-> f, err |-> "FileExistsError"]

\* makedirs creates the missing parent first (the parent of Root always exists),
\* then the directory itself.
MakeDirs(f, d) ==
    IF d # Root /\ f[Root].kind = "absent"
    THEN MkDir(MkDir(f, Root).fs, d)
    ELSE MkDir(f, d)

----------------------------------------------------------------------------
(* mri_to_png and convert_file *)

\* open(mri_file_path, 'rb'): the exception it raises.
OpenRead(kind) ==
    CASE kind = "dir" -> "IsADirectoryError"
      [] kind = "unreadable" -> "PermissionError"
      [] OTHER -> "none"

\* The exception raised inside mri_to_png's try block for a file of this kind;
\* intr: the user interrupts the process during the conversion.
MriToPngBody(kind, intr) ==
    CASE intr -> "KeyboardInterrupt"
      [] kind = "garbage" -> "InvalidDicomError"    \* pydicom.dcmread
      [] kind = "nopixel" -> "ValueError"           \* no pixel_array
      [] kind = "multiframe" -> "ValueError"        \* height, width = shape
      [] OTHER -> "none"

\* mri_to_png: every Exception is re-raised as a RuntimeError.
MriToPng(kind, intr) ==
    LET e == MriToPngBody(kind, intr)
    IN  IF IsException(e) THEN "RuntimeError" ELSE e

\* (mutant) an except clause that leaves the destination where it is.
CleanupSkipped(f, dst) == f

\* The except clause of convert_file: the destination is removed if it exists.
Cleanup(f, dst) ==
    IF f[dst].kind # "absent" THEN [f EXCEPT ![dst] = Absent] ELSE f

\* (mutant) convert_file without its check of the destination.
PrecheckNoDst(f, srcExists, dst) ==
    IF ~srcExists THEN "FileNotFoundError" ELSE "none"

\* (mutant) convert_file with its two checks in the other order.
PrecheckDstFirst(f, srcExists, dst) ==
    CASE f[dst].kind # "absent" -> "FileExistsError"
      [] ~srcExists -> "FileNotFoundError"
      [] OTHER -> "none"

\* The two checks convert_file makes before touching the filesystem.
Precheck(f, srcExists, dst) ==
    CASE ~srcExists -> "FileNotFoundError"
      [] f[dst].kind # "absent" -> "FileExistsError"
      [] OTHER -> "none"

\* The with-blocks of convert_file under its try: the source is opened, then the
\* destination (which creates it), then mri_to_png runs. An Exception is caught,
\* the destination removed and the exception raised again; a KeyboardInterrupt
\* passes the except clause by.
TryConvert(f, kind, src, dst, intr) ==
    LET eo == OpenRead(kind)
        f1 == [f EXCEPT ![dst] = Partial]
        e == MriToPng(kind, intr)
    IN  CASE eo # "none" -> [fs |-> Cleanup(f, dst), exc |-> eo, opened |-> FALSE]
          [] e = "none" -> [fs |-> [f1 EXCEPT ![dst] = Png(src)], exc |-> "none", opened |-> TRUE]
          [] IsException(e) -> [fs |-> Cleanup(f1, dst), exc |-> e, opened |-> TRUE]
          [] OTHER -> [fs |-> f1, exc |-> e, opened |-> TRUE]

\* convert_file(mri_file_path, png_file_path) on a source of the given kind.
ConvertFile(f, srcExists, kind, src, dst, intr) ==
    LET pre == Precheck(f, srcExists, dst)
        md == MakeDirs(f, DirName(dst))
    IN  CASE pre # "none" -> [fs |-> f, exc |-> pre, opened |-> FALSE]
          [] md.err # "none" -> [fs |-> md.fs, exc |-> md.err, opened |-> FALSE]
          [] OTHER -> TryConvert(md.fs, kind, src, dst, intr)

----------------------------------------------------------------------------
(* convert_folder *)

\* The value of a local that was never assigned.
Unbound == [dir |-> "-", stem |-> "-"]

\* str.lower() on the extensions of the model.
Lower(ext) == IF ext = ".DICOM" THEN ".dicom" ELSE ext

\* file.lower().endswith(('.dcm', '.dicom'))
HasDicomExt(file) == Lower(file.ext) \in {".dcm", ".dicom"}

\* pydicom.misc.is_dicom(path): opens the file and looks for the DICM magic.
IsDicom(kind) ==
    CASE kind = "unreadable" -> "PermissionError"
      [] kind \in {"valid", "nopixel", "multiframe"} -> "true"
      [] OTHER -> "false"

\* os.path.join(png_folder, os.path.relpath(root, mri_folder),
\*              os.path.splitext(file)[0] + '.png')
OutPath(file) == [dir |-> file.dir, stem |-> file.stem]

\* The try block of the loop body for one file: what it does to the destination
\* tree, the value of png_file_path after it, whether the file was passed over
\* by continue, and the exception it raised.
TryFile(f, t, file, pfp, intr) ==
    LET probe == IF HasDicomExt(file) THEN "true" ELSE IsDicom(t[file])
        md == MakeDirs(f, DirName(OutPath(file)))
        cf == ConvertFile(md.fs, TRUE, t[file], file, OutPath(file), intr)
    IN  CASE probe = "false" ->
                [fs |-> f, pfp |-> pfp, skipped |-> TRUE, exc |-> "none"]
          [] probe # "true" ->
                [fs |-> f, pfp |-> pfp, skipped |-> FALSE, exc |-> probe]
          [] md.err # "none" ->
                [fs |-> md.fs, pfp |-> pfp, skipped |-> FALSE, exc |-> md.err]
          [] OTHER ->
                [fs |-> cf.fs, pfp |-> OutPath(file), skipped |-> FALSE, exc |-> cf.exc]

\* The except clauses of the loop body: what is printed for the file
\* ("" nothing) and the exception that leaves the loop ("none": the loop goes
\* on). The FAIL line formats png_file_path, which raises UnboundLocalError when
\* no iteration has assigned it yet.
Handle(e, skipped, pfp) ==
    CASE skipped -> [print |-> "", exc |-> "none"]
      [] e = "none" -> [print |-> "SUCCESS", exc |-> "none"]
      [] e = "InvalidDicomError" -> [print |-> "SKIP", exc |-> "none"]
      [] IsException(e) ->
            IF pfp = Unbound
            THEN [print |-> "", exc |-> "UnboundLocalError"]
            ELSE [print |-> "FAIL", exc |-> "none"]
      [] OTHER -> [print |-> "", exc |-> e]

\* os.walk is top-down: the files of the root directory come before those of
\* its sub-directories; the order within a directory is the operating system's.
NextFiles(td) ==
    IF \E x \in td : x.dir = "." THEN {x \in td : x.dir = "."} ELSE td

----------------------------------------------------------------------------
(* main *)

\* (mutant) main without the check of the source's kind.
SourceKindUnchecked(folder, t, p) == TRUE

\* os.path.isdir(args.dicom_path) with --folder, os.path.isfile without.
SourceKindMatches(folder, t, p) ==
    IF folder THEN SrcIsDir(p) ELSE SrcIsFile(t, p)

\* (mutant) a main that reports the interruption as success.
MainStatusNoInterrupt(e) == IF IsException(e) THEN 1 ELSE 0

\* main's return value after the dispatched call: 1 from either except clause,
\* 0 when the call returned.
MainStatus(e) ==
    CASE e = "KeyboardInterrupt" -> 1
      [] IsException(e) -> 1
      [] OTHER -> 0

----------------------------------------------------------------------------
(* float64 arithmetic, as NumPy performs it for mri_to_png *)

\* A float64 is (-1)^neg * sig * 2^exp with a 53-bit significand sig, kept in
\* three limbs: sig = s2 * 2^36 + s1 * 2^18 + s0, with 2^16 <= s2 < 2^17 and
\* s1, s0 < 2^18. Zero has all limbs 0 and keeps its sign.
Top == 2^16
Base == 2^18

FZero(neg) == [neg |-> neg, s2 |-> 0, s1 |-> 0, s0 |-> 0, exp |-> 0]

\* IEEE 754 round-to-nearest, ties to even: whether the kept significand is
\* incremented, given the first dropped bit, whether any later dropped bit is
\* set, and whether the kept significand is odd.
RoundsUp(guard, sticky, odd) == guard = 1 /\ (sticky \/ odd)

\* The significand plus one; 2^53 is renormalized to 2^52 * 2.
Increment(x) ==
    CASE x.s0 + 1 < Base -> [x EXCEPT !.s0 = x.s0 + 1]
      [] x.s1 + 1 < Base -> [x EXCEPT !.s0 = 0, !.s1 = x.s1 + 1]
      [] x.s2 + 1 < 2 * Top -> [x EXCEPT !.s0 = 0, !.s1 = 0, !.s2 = x.s2 + 1]
      [] OTHER -> [x EXCEPT !.s0 = 0, !.s1 = 0, !.s2 = Top, !.exp = x.exp + 1]

Round(x, guard, sticky) ==
    IF RoundsUp(guard, sticky, x.s0 % 2 = 1) THEN Increment(x) ELSE x

\* a and b scaled by powers of two until b <= a < 2b: a/b = (a'/b') * 2^e.
RECURSIVE Align(_, _, _)
Align(a, b, e) ==
    IF a < b THEN Align(2 * a, b, e - 1)
    ELSE IF a >= 2 * b THEN Align(a, 2 * b, e + 1)
    ELSE [a |-> a, b |-> b, e |-> e]

\* Long division, k <= 9 bits at a time: the next k bits of r/b and the
\* remainder (r < b < 2^17).
Chunk(r, b, k) == [q |-> (r * 2^k) \div b, r |-> (r * 2^k) % b]

\* The next k <= 18 bits of r/b, as two chunks.
DivLimb(r, b, k) ==
    LET h == k \div 2
        c1 == Chunk(r, b, h)
        c2 == Chunk(c1.r, b, k - h)
    IN  [q |-> c1.q * 2^(k - h) + c2.q, r |-> c2.r]

\* float(a) / float(b) for integers 0 <= a < 2^16, 0 < |b| < 2^16: the exact
\* quotient, correctly rounded. After the leading 1, 16 + 18 + 18 quotient bits
\* fill the significand; one more bit and the remainder decide the rounding.
FDiv(a, b) ==
    LET mag == IF b < 0 THEN -b ELSE b
        al == Align(a, mag, 0)
        d2 == DivLimb(al.a - al.b, al.b, 16)
        d1 == DivLimb(d2.r, al.b, 18)
        d0 == DivLimb(d1.r, al.b, 18)
        g == Chunk(d0.r, al.b, 1)
    IN  IF a = 0 THEN FZero(b < 0)
        ELSE Round([neg |-> b < 0, s2 |-> Top + d2.q, s1 |-> d1.q, s0 |-> d0.q,
                    exp |-> al.e - 52],
                   g.q, g.r # 0)

\* x * 255 for a float64 x: the exact product, limb by limb with carries, has 60
\* or 61 bits; its low 7 or 8 bits are rounded away.
FMul255(x) ==
    LET t0 == x.s0 * 255
        t1 == x.s1 * 255 + (t0 \div Base)
        t2 == x.s2 * 255 + (t1 \div Base)
        p0 == t0 % Base
        p1 == t1 % Base
        d == IF t2 < 2^24 THEN 7 ELSE 8
        kept == [neg |-> x.neg,
                 s2 |-> t2 \div 2^d,
                 s1 |-> (t2 % 2^d) * 2^(18 - d) + (p1 \div 2^d),
                 s0 |-> (p1 % 2^d) * 2^(18 - d) + (p0 \div 2^d),
                 exp |-> x.exp + d]
    IN  IF x.s2 = 0 THEN x
        ELSE Round(kept, (p0 \div 2^(d - 1)) % 2, p0 % 2^(d - 1) # 0)

\* The integer part of |x| (toward zero); 2^30 stands for every larger value.
TruncAbs(x) ==
    LET k == 53 + x.exp
    IN  CASE x.s2 = 0 \/ k <= 0 -> 0
          [] k <= 17 -> x.s2 \div 2^(17 - k)
          [] k <= 30 -> x.s2 * 2^(k - 17) + (x.s1 \div 2^(35 - k))
          [] OTHER -> 2^30

\* float64 -> uint8 (astype(np.uint8)): the value truncated toward zero. A
\* truncated value outside 0..255 has no defined result in C; a build either
\* converts through a wider integer and keeps the low byte ("wrap") or
\* saturates ("saturate").
CastUint8(x, conv) ==
    LET t == TruncAbs(x)
    IN  CASE t = 0 -> 0
          [] ~x.neg /\ t <= 255 -> t
          [] conv = "wrap" -> (IF x.neg THEN -t ELSE t) % 256
          [] OTHER -> IF x.neg THEN 0 ELSE 255

----------------------------------------------------------------------------
(* The normalization of mri_to_png *)

Dtypes == {"uint8", "uint16", "int16"}

\* The sample values the grids are drawn from, per element type.
Samples(dt) ==
    CASE dt = "uint8" -> {0, 1, 128, 255}
      [] dt = "uint16" -> {0, 1, 3, 255, 256, 21845, 65535}
      [] OTHER -> {-32768, -20000, -1, 0, 1, 100, 20000, 32767}

\* Grids of h rows and w columns.
Grids(dt, h, w) == [1..h -> [1..w -> Samples(dt)]]

Shapes == {hw \in (1..MaxCells) \X (1..MaxCells) : hw[1] * hw[2] <= MaxCells}

Cells(g) == {g[i][j] : i \in 1..Len(g), j \in 1..Len(g[1])}

\* pixel_array.max(), pixel_array.min()
GridMax(g) == CHOOSE m \in Cells(g) : \A x \in Cells(g) : x <= m
GridMin(g) == CHOOSE m \in Cells(g) : \A x \in Cells(g) : m <= x

\* Subtraction of two np.int16 scalars: the result is an np.int16, modulo 2^16.
Int16Sub(a, b) == ((a - b + 32768) % 65536) - 32768

\* astype(np.uint8) of an integer array keeps the low byte.
IntToUint8(x) == x % 256

\* (mutant) scaling by the full range of the type instead of the grid's maximum.
FullRange16(g) == 65535

\* The divisor of the 16-bit branch: pixel_array.max().
Divisor16(g) == GridMax(g)

\* The divisor of the last branch: pixel_array.max() - pixel_array.min(), both
\* scalars of the array's own type.
DivisorOther(g) == Int16Sub(GridMax(g), GridMin(g))

\* ((pixel_array.astype(float) / max) * 255).astype(np.uint8), per sample.
Scale16(g, conv) ==
    [i \in 1..Len(g) |-> [j \in 1..Len(g[1]) |->
        CastUint8(FMul255(FDiv(g[i][j], Divisor16(g))), conv)]]

\* ((pixel_array.astype(float) - min) / (max - min) * 255).astype(np.uint8), per
\* sample; the float subtraction is exact (both operands are integers below
\* 2^16 in magnitude).
ScaleOther(g, conv) ==
    [i \in 1..Len(g) |-> [j \in 1..Len(g[1]) |->
        CastUint8(FMul255(FDiv(g[i][j] - GridMin(g), DivisorOther(g))), conv)]]

\* pixel_array.astype(np.uint8)
Truncate(g) == [i \in 1..Len(g) |-> [j \in 1..Len(g[1]) |-> IntToUint8(g[i][j])]]

\* The three branches of mri_to_png on the element type.
Normalize(dt, g, conv) ==
    CASE dt = "uint16" -> IF GridMax(g) > 0 THEN Scale16(g, conv) ELSE Truncate(g)
      [] dt = "uint8" -> g
      [] OTHER -> IF GridMax(g) > GridMin(g) THEN ScaleOther(g, conv) ELSE Truncate(g)

\* The filesystem side stands still under NormSpec.
FsIdle ==
    /\ entry = "none"
    /\ srcArg = SrcRoot
    /\ dstArg = Root
    /\ tree = [x \in SrcNames |-> "absent"]
    /\ fs0 = [p \in DstPaths |-> Absent]
    /\ fs = fs0
    /\ pc = "idle"
    /\ todo = {}
    /\ success_count = 0
    /\ fail_count = 0
    /\ png_file_path = Unbound
    /\ printed = [x \in SrcNames |-> ""]
    /\ summary = FALSE
    /\ exc = "none"
    /\ status = -1
    /\ calls = {}
    /\ opened = FALSE

NormInit ==
    /\ dtype \in Dtypes
    /\ \E hw \in Shapes : pixel_array \in Grids(dtype, hw[1], hw[2])
    /\ image_2d_scaled = <<>>
    /\ npc = "decoded"
    /\ FsIdle

\* The uint16 branch.
Normalize16 ==
    /\ npc = "decoded"
    /\ dtype = "uint16"
    /\ \E conv \in {"wrap", "saturate"} :
        image_2d_scaled' = Normalize(dtype, pixel_array, conv)
    /\ npc' = "scaled"
    /\ UNCHANGED <<dtype, pixel_array>>
    /\ UNCHANGED fsVars

\* The uint8 branch.
Normalize8 ==
    /\ npc = "decoded"
    /\ dtype = "uint8"
    /\ \E conv \in {"wrap", "saturate"} :
        image_2d_scaled' = Normalize(dtype, pixel_array, conv)
    /\ npc' = "scaled"
    /\ UNCHANGED <<dtype, pixel_array>>
    /\ UNCHANGED fsVars

\* The branch of every other element type.
NormalizeOther ==
    /\ npc = "decoded"
    /\ dtype \notin {"uint16", "uint8"}
    /\ \E conv \in {"wrap", "saturate"} :
        image_2d_scaled' = Normalize(dtype, pixel_array, conv)
    /\ npc' = "scaled"
    /\ UNCHANGED <<dtype, pixel_array>>
    /\ UNCHANGED fsVars

NormNext ==
    \/ Normalize16
    \/ Normalize8
    \/ NormalizeOther

NormSpec == NormInit /\ [][NormNext]_vars

----------------------------------------------------------------------------
(* Initial states *)

\* The source trees: at most n files, each of some kind.
Trees(n) ==
    {[x \in SrcNames |-> IF x \in DOMAIN k THEN k[x] ELSE "absent"] :
        k \in UNION {[S -> Kinds] : S \in {T \in SUBSET SrcNames : Cardinality(T) <= n}}}

\* The destination trees before the call: the root and sub may be absent,
\* directories or regular files; a file lies in a directory.
DstInits ==
    {f \in [DstPaths -> {Absent, Dir, Old}] :
        /\ \A p \in DstFiles : f[p] # Dir
        /\ f[Root] # Dir => \A p \in DstPaths \ {Root} : f[p] = Absent
        /\ \A p \in DstFiles : f[p] # Absent => f[DirName(p)] = Dir}

\* The normalization side stands still under Spec.
NormIdle ==
    /\ dtype = "uint8"
    /\ pixel_array = <<>>
    /\ image_2d_scaled = <<>>
    /\ npc = "idle"

Init ==
    /\ entry \in {"convert_file", "main_file", "main_folder"}
    /\ tree \in Trees(IF entry = "main_folder" THEN MaxFiles ELSE 1)
    /\ srcArg \in IF entry = "main_folder" /\ Cardinality(FilesOf(tree)) > 1
                  THEN {SrcRoot}
                  ELSE SrcNames \cup {SrcRoot}
    /\ dstArg \in IF entry = "main_folder" THEN {Root} ELSE DstFiles
    /\ fs0 \in DstInits
    /\ fs = fs0
    /\ pc = "start"
    /\ todo = {}
    /\ success_count = 0
    /\ fail_count = 0
    /\ png_file_path = Unbound
    /\ printed = [x \in SrcNames |-> ""]
    /\ summary = FALSE
    /\ exc = "none"
    /\ status = -1
    /\ calls = {}
    /\ opened = FALSE
    /\ NormIdle

----------------------------------------------------------------------------
(* Actions *)

\* A direct call of convert_file(srcArg, dstArg).
CallConvertFile ==
    /\ pc = "start"
    /\ entry = "convert_file"
    /\ \E intr \in BOOLEAN :
        LET r == ConvertFile(fs, SrcExists(tree, srcArg), KindOf(tree, srcArg),
                             srcArg, dstArg, intr)
        IN  /\ fs' = r.fs
            /\ exc' = r.exc
            /\ opened' = r.opened
    /\ calls' = {"convert_file"}
    /\ pc' = "done"
    /\ UNCHANGED <<entry, srcArg, dstArg, tree, fs0, todo, success_count, fail_count,
                   png_file_path, printed, summary, status>>
    /\ UNCHANGED normVars

\* main without --folder.
MainFile ==
    /\ pc = "start"
    /\ entry = "main_file"
    /\ IF ~SourceKindMatches(FALSE, tree, srcArg)
       THEN /\ status' = 1
            /\ UNCHANGED <<fs, exc, opened, calls>>
       ELSE /\ \E intr \in BOOLEAN :
                LET r == ConvertFile(fs, SrcExists(tree, srcArg), KindOf(tree, srcArg),
                                     srcArg, dstArg, intr)
                IN  /\ fs' = r.fs
                    /\ exc' = r.exc
                    /\ opened' = r.opened
                    /\ status' = MainStatus(r.exc)
            /\ calls' = {"convert_file"}
    /\ pc' = "done"
    /\ UNCHANGED <<entry, srcArg, dstArg, tree, fs0, todo, success_count, fail_count,
                   png_file_path, printed, summary>>
    /\ UNCHANGED normVars

\* main with --folder, up to the loop of convert_folder: the check of the
\* source, then os.makedirs(png_folder) and the counters.
MainFolder ==
    /\ pc = "start"
    /\ entry = "main_folder"
    /\ IF ~SourceKindMatches(TRUE, tree, srcArg)
       THEN /\ status' = 1
            /\ pc' = "done"
            /\ UNCHANGED <<fs, exc, calls, todo>>
       ELSE LET md == MakeDirs(fs, dstArg)
            IN  /\ calls' = {"convert_folder"}
                /\ fs' = md.fs
                /\ exc' = md.err
                /\ IF md.err # "none"
                   THEN /\ status' = MainStatus(md.err)
                        /\ pc' = "done"
                        /\ todo' = {}
                   ELSE /\ status' = status
                        /\ pc' = "walking"
                        /\ todo' = IF SrcIsDir(srcArg) THEN FilesOf(tree) ELSE {}
    /\ UNCHANGED <<entry, srcArg, dstArg, tree, fs0, success_count, fail_count,
                   png_file_path, printed, summary, opened>>
    /\ UNCHANGED normVars

\* One iteration of convert_folder's loop: the next file os.walk yields.
VisitFile ==
    /\ pc = "walking"
    /\ \E file \in NextFiles(todo), intr \in BOOLEAN :
        LET r == TryFile(fs, tree, file, png_file_path, intr)
            h == Handle(r.exc, r.skipped, r.pfp)
        IN  /\ fs' = r.fs
            /\ png_file_path' = r.pfp
            /\ printed' = [printed EXCEPT ![file] = h.print]
            /\ success_count' = success_count + (IF h.print = "SUCCESS" THEN 1 ELSE 0)
            /\ fail_count' = fail_count + (IF h.print = "FAIL" THEN 1 ELSE 0)
            /\ todo' = todo \ {file}
            /\ exc' = h.exc
            /\ IF h.exc = "none"
               THEN pc' = "walking" /\ status' = status
               ELSE pc' = "done" /\ status' = MainStatus(h.exc)
    /\ UNCHANGED <<entry, srcArg, dstArg, tree, fs0, summary, calls, opened>>
    /\ UNCHANGED normVars

\* The tree is exhausted: convert_folder prints the summary and returns, and
\* main returns 0.
FolderReturn ==
    /\ pc = "walking"
    /\ todo = {}
    /\ summary' = TRUE
    /\ status' = MainStatus("none")
    /\ pc' = "done"
    /\ UNCHANGED <<entry, srcArg, dstArg, tree, fs, fs0, todo, success_count, fail_count,
                   png_file_path, printed, exc, calls, opened>>
    /\ UNCHANGED normVars

Next ==
    \/ CallConvertFile
    \/ MainFile
    \/ MainFolder
    \/ VisitFile
    \/ FolderReturn

Spec == Init /\ [][Next]_vars

----------------------------------------------------------------------------
(* Properties of convert_file, convert_folder and main *)

\* The destination tree held no regular file before the call.
NoFiles(f) == \A p \in DstPaths : f[p].kind \in {"absent", "dir"}

\* The file is passed over by the loop: neither its extension nor the probe
\* says DICOM.
NonMatching(f) == ~HasDicomExt(f) /\ IsDicom(tree[f]) = "false"

\* The PNG of source file f lies at its mirrored path.
Completed(f) == fs[OutPath(f)] = Png(f)

\* convert_folder ran its loop to an end of its own (it was not interrupted).
FolderEnded ==
    /\ pc = "done"
    /\ entry = "main_folder"
    /\ calls = {"convert_folder"}
    /\ fs[Root] = Dir
    /\ exc # "KeyboardInterrupt"

\* C1: convert_file is all-or-nothing for its destination. When the
\* destination did not exist before the call, was opened for writing, and the
\* conversion of the source then fails (not a DICOM file, no pixel data, a grid
\* that cannot be encoded), the call ends with an exception and the destination
\* does not exist.
C1_AllOrNothing ==
    ( /\ pc = "done"
      /\ entry \in {"convert_file", "main_file"}
      /\ fs0[dstArg] = Absent
      /\ opened
      /\ KindOf(tree, srcArg) \in {"garbage", "nopixel", "multiframe"}
      /\ exc # "KeyboardInterrupt" )
    => (fs[dstArg] = Absent /\ IsException(exc))

\* C1 witness: a source without pixel data, a destination whose directory did not
\* exist either: the destination was opened, the call raised, nothing is left.
C1_Witness ==
    /\ pc = "done"
    /\ entry = "convert_file"
    /\ fs0[Root] = Absent
    /\ opened
    /\ KindOf(tree, srcArg) = "nopixel"
    /\ exc = "RuntimeError"
    /\ fs[dstArg] = Absent

\* C2: convert_file checks before it touches the filesystem. A missing source
\* gives FileNotFoundError; an existing source with an existing destination gives
\* FileExistsError; in both cases the destination tree is as it was (nothing
\* created, the existing destination kept).
C2_ChecksBeforeIO ==
    (pc = "done" /\ entry = "convert_file") =>
        /\ ~SrcExists(tree, srcArg) => (exc = "FileNotFoundError" /\ fs = fs0)
        /\ (SrcExists(tree, srcArg) /\ fs0[dstArg] # Absent) =>
                (exc = "FileExistsError" /\ fs = fs0)

\* C2 witness: an existing source and a destination that is already there.
C2_Witness ==
    /\ pc = "done"
    /\ entry = "convert_file"
    /\ SrcIsFile(tree, srcArg)
    /\ fs0[dstArg] = Old
    /\ exc = "FileExistsError"
    /\ fs[dstArg] = Old

\* C3 (as claimed): whatever a file's processing raises, convert_folder catches
\* it, counts the file as a failure, visits every remaining file and returns
\* after the summary.
C3_BatchNeverAborts ==
    FolderEnded =>
        /\ exc = "none"
        /\ todo = {}
        /\ summary
        /\ fail_count =
             Cardinality({f \in FilesOf(tree) : ~NonMatching(f) /\ ~Completed(f)})

\* The totals of a tree, computed per output path and without any order: of the
\* files that map to one path, one valid file is converted if the path is free
\* and its directory can be made, and every other one fails.
Attempts(t, p) == {f \in FilesOf(t) : OutPath(f) = p /\ (HasDicomExt(f) \/ IsDicom(t[f]) # "false")}

PathFree(f0, p) ==
    /\ f0[p] = Absent
    /\ f0[DirName(p)] \in {Absent, Dir}

Converts(t, f0, p) ==
    IF PathFree(f0, p) /\ \E f \in Attempts(t, p) : t[f] = "valid" THEN 1 ELSE 0

RECURSIVE SumOver(_, _, _, _)
SumOver(ps, t, f0, succ) ==
    IF ps = {} THEN 0
    ELSE LET p == CHOOSE x \in ps : TRUE
         IN  (IF succ THEN Converts(t, f0, p)
                      ELSE Cardinality(Attempts(t, p)) - Converts(t, f0, p))
             + SumOver(ps \ {p}, t, f0, succ)

ExpectedSuccess(t, f0) == SumOver(DstFiles, t, f0, TRUE)
ExpectedFail(t, f0) == SumOver(DstFiles, t, f0, FALSE)

\* C4 (as claimed): when convert_folder ends, success_count is the number of
\* matched files that were converted, fail_count the number of matched files that
\* were not, a non-matching file has no line and no output, and both totals are
\* the ones the tree determines, whatever the order of the visits.
C4_TotalsFollowClassification ==
    FolderEnded =>
        /\ success_count = Cardinality({f \in FilesOf(tree) : Completed(f)})
        /\ fail_count =
             Cardinality({f \in FilesOf(tree) : ~NonMatching(f) /\ ~Completed(f)})
        /\ \A f \in FilesOf(tree) : NonMatching(f) => (printed[f] = "" /\ ~Completed(f))
        /\ success_count = ExpectedSuccess(tree, fs0)
        /\ fail_count = ExpectedFail(tree, fs0)

\* C5 (as claimed): main returns 1 on any failure, a failed file of folder mode
\* included, and 0 only when every attempted conversion succeeded.
C5_StatusOneOnAnyFailure ==
    (pc = "done" /\ entry \in {"main_file", "main_folder"}) =>
        status = IF \/ calls = {}
                    \/ exc # "none"
                    \/ fail_count > 0
                 THEN 1 ELSE 0

\* C5 (amended): main returns 1 when the check of the source fails or an
\* exception (KeyboardInterrupt included) leaves convert_file or convert_folder,
\* and 0 otherwise: a file that fails inside convert_folder is counted there and
\* does not change the status.
C5_StatusOneOnEscapedError ==
    (pc = "done" /\ entry \in {"main_file", "main_folder"}) =>
        status = IF \/ (entry = "main_file" /\ ~SrcIsFile(tree, srcArg))
                    \/ (entry = "main_folder" /\ ~SrcIsDir(srcArg))
                    \/ exc # "none"
                 THEN 1 ELSE 0

\* C5 witness: folder mode returned 0 with a failed file and a converted one.
C5_Witness ==
    /\ pc = "done"
    /\ entry = "main_folder"
    /\ summary
    /\ fail_count = 1
    /\ success_count = 1
    /\ status = 0

\* C6 (as claimed): with no file in the destination tree beforehand, after
\* convert_folder returns every matched file that decodes has its PNG at the
\* mirrored path and is counted as a success.
C6_EveryDicomConverted ==
    ( /\ pc = "done"
      /\ entry = "main_folder"
      /\ summary
      /\ exc = "none"
      /\ NoFiles(fs0) )
    => /\ \A f \in FilesOf(tree) :
            (~NonMatching(f) /\ tree[f] = "valid") =>
                (Completed(f) /\ printed[f] = "SUCCESS")
       /\ success_count =
            Cardinality({f \in FilesOf(tree) : ~NonMatching(f) /\ tree[f] = "valid"})

\* C7: main checks the kind of the source before it dispatches. With --folder
\* and a source that is no directory, or without it and a source that is no
\* existing regular file, main returns 1, calls neither convert_folder nor
\* convert_file, and the destination tree is as it was.
C7_KindCheckedBeforeDispatch ==
    ( /\ pc = "done"
      /\ \/ (entry = "main_folder" /\ ~SrcIsDir(srcArg))
         \/ (entry = "main_file" /\ ~SrcIsFile(tree, srcArg)) )
    => (status = 1 /\ calls = {} /\ fs = fs0 /\ ~summary)

\* C7 witness: --folder with a source that is a regular file, and a destination
\* root that did not exist.
C7_Witness ==
    /\ pc = "done"
    /\ entry = "main_folder"
    /\ SrcIsFile(tree, srcArg)
    /\ fs0[Root] = Absent
    /\ status = 1
    /\ fs[Root] = Absent

\* C10: with no file in the destination tree beforehand, at every boundary of
\* convert_folder's loop and at its end the files under the destination root are
\* as many as success_count: each is the PNG of a file reported SUCCESS, and the
\* PNG of every file reported SUCCESS is still there (a later failed or skipped
\* file neither adds nor removes one).
C10_OutputsMatchSuccessCount ==
    ( /\ entry = "main_folder"
      /\ pc \in {"walking", "done"}
      /\ NoFiles(fs0)
      /\ exc # "KeyboardInterrupt" )
    => /\ Cardinality({p \in DstPaths : IsFileNode(fs[p])}) = success_count
       /\ \A f \in SrcNames : printed[f] = "SUCCESS" => Completed(f)
       /\ \A p \in DstPaths : IsFileNode(fs[p]) =>
            (fs[p].kind = "png" /\ printed[fs[p].src] = "SUCCESS")

\* C10 witness: a file was converted, and a file visited after it, with the same
\* output path, failed; the first PNG is in place.
C10_Witness ==
    /\ entry = "main_folder"
    /\ pc = "done"
    /\ NoFiles(fs0)
    /\ success_count = 1
    /\ \E f, g \in FilesOf(tree) :
        /\ f # g
        /\ OutPath(f) = OutPath(g)
        /\ tree[g] = "garbage"
        /\ printed[f] = "SUCCESS"
        /\ printed[g] = "FAIL"
        /\ Completed(f)

----------------------------------------------------------------------------
(* Properties of the normalization *)

SameShape(g, h) ==
    /\ DOMAIN g = DOMAIN h
    /\ \A i \in DOMAIN g : DOMAIN g[i] = DOMAIN h[i]

\* C8: an unsigned 16-bit grid with a positive sample is scaled by its maximum:
\* every output sample is floor(sample * 255 / max), lies in 0..255, is 255 for
\* the maximum and 0 for zero, and the output has the shape of the input.
C8_Scale16ByMaximum ==
    (npc = "scaled" /\ dtype = "uint16" /\ GridMax(pixel_array) > 0) =>
        /\ SameShape(image_2d_scaled, pixel_array)
        /\ \A i \in DOMAIN pixel_array : \A j \in DOMAIN pixel_array[i] :
            LET x == pixel_array[i][j]
                y == image_2d_scaled[i][j]
            IN  /\ y = (x * 255) \div GridMax(pixel_array)
                /\ y \in 0..255
                /\ x = GridMax(pixel_array) => y = 255
                /\ x = 0 => y = 0

\* C8 witness: a grid with maximum 3 and a sample 1, whose quotient 1/3 is not a
\* float64 and whose output is 85; a zero sample beside them.
C8_Witness ==
    /\ npc = "scaled"
    /\ dtype = "uint16"
    /\ GridMax(pixel_array) = 3
    /\ \E i \in DOMAIN pixel_array : \E j, k \in DOMAIN pixel_array[i] :
        /\ pixel_array[i][j] = 1
        /\ image_2d_scaled[i][j] = 85
        /\ pixel_array[i][k] = 0
        /\ image_2d_scaled[i][k] = 0

\* C9 (as claimed): a grid of any other element type with max > min, signed
\* 16-bit over its full range included, is scaled between its minimum and its
\* maximum: every output sample is floor((sample - min) * 255 / (max - min)),
\* lies in 0..255, is 0 for the minimum and 255 for the maximum.
C9_MinMaxScaling ==
    ( /\ npc = "scaled"
      /\ dtype \notin {"uint8", "uint16"}
      /\ GridMax(pixel_array) > GridMin(pixel_array) )
    => \A i \in DOMAIN pixel_array : \A j \in DOMAIN pixel_array[i] :
        LET x == pixel_array[i][j]
            y == image_2d_scaled[i][j]
            lo == GridMin(pixel_array)
            hi == GridMax(pixel_array)
        IN  /\ y = ((x - lo) * 255) \div (hi - lo)
            /\ y \in 0..255
            /\ x = lo => y = 0
            /\ x = hi => y = 255

====
